---- MODULE Spec2Model ----
(***************************************************************************)
(* PsrSigSim: Telescope.add_system and Telescope.observe                   *)
(* (src/psrsigsim/telescope/telescope.py).                                 *)
(*                                                                         *)
(* The code computes its times in binary floating point (IEEE 754 double).  *)
(* A time is written here as a pair <<p, q>> of positive integers and      *)
(* stands for the double nearest to p / q, which is what the divisions     *)
(* 1/(2*bak.samprate) and signal.ObsTime / signal.Nt of the code produce   *)
(* when samprate is a dyadic number and ObsTime and Nt are integers.  The  *)
(* operators FloatEq, FloatGt, FloatModIsZero and FloatFloorDiv compute    *)
(* ==, >, % and // on those doubles exactly, rounding error included: the  *)
(* double nearest to 1/25 lies above 1/25, so 1 // 0.04 is 24 and          *)
(* 0.04 % (1/75) is not 0.                                                 *)
(*                                                                         *)
(* ObsTime and Nt are positive, as the signal layer guarantees.            *)
(*                                                                         *)
(* A sample is a fraction <<n, d>> in lowest terms with d > 0.  The means   *)
(* the resampling operators take are exact; the cast to the signal's data  *)
(* type rounds them (float32) or truncates them (int8).                    *)
(***************************************************************************)
EXTENDS Integers, Sequences, FiniteSets, TLC

\* ---------------------------------------------------------------- bounds
MaxNt == 4
MaxObsTime == 4
MaxRows == 2
MaxSample == 2
MaxSubint == 1

\* telescope.py:119, "convert from seconds to ms"
MsPerSecond == 1000

\* ------------------------------------------------------------- fractions
\* exact comparison of the fractions p / q themselves
RatEq(x, y) == x[1] * y[2] = y[1] * x[2]
RatLt(x, y) == x[1] * y[2] < y[1] * x[2]
RatGt(x, y) == RatLt(y, x)

\* ------------------------------------------------- double precision floats
\* e with 2^e <= p / q < 2^(e+1)
RECURSIVE Log2Floor(_, _)
Log2Floor(p, q) ==
    IF p >= 2 * q THEN Log2Floor(p, 2 * q) + 1
    ELSE IF p < q THEN Log2Floor(2 * p, q) - 1
    ELSE 0

RECURSIVE Pow2(_)
Pow2(n) == IF n <= 0 THEN 1 ELSE 2 * Pow2(n - 1)

\* 2^k mod q
RECURSIVE PowMod2(_, _)
PowMod2(k, q) == IF k <= 0 THEN 1 % q ELSE (2 * PowMod2(k - 1, q)) % q

\* Rounding p / q to the 53 significant bits of a double: with k = RoundBits(x)
\* the scaled value p * 2^k / q lies in [2^52, 2^53) and is rounded to the
\* nearest integer, so the double is (p * 2^k + RoundNum(x)) / (q * 2^k).
\* (A tie would need a numerator of 53 bits; none occurs here.)
RoundBits(x) == 52 - Log2Floor(x[1], x[2])
RoundNum(x) ==
    LET q == x[2]
        rem == ((x[1] % q) * PowMod2(RoundBits(x), q)) % q
    IN IF rem = 0 THEN 0 ELSE IF 2 * rem < q THEN -rem ELSE q - rem

\* sign of err(x) - n * err(y), where err(z) = RoundNum(z) / (z[2] * 2^RoundBits(z))
\* is the rounding error of the double that z stands for
ErrCmp(x, n, y) ==
    LET s == RoundBits(y) - RoundBits(x)
        a == RoundNum(x) * y[2] * (IF s >= 0 THEN Pow2(s) ELSE 1)
        b == n * RoundNum(y) * x[2] * (IF s < 0 THEN Pow2(-s) ELSE 1)
    IN IF a > b THEN 1 ELSE IF a < b THEN -1 ELSE 0

\* x == y and x > y on the doubles: distinct fractions of small integers lie
\* many units in the last place apart, equal fractions round to the same double
FloatEq(x, y) == RatEq(x, y) /\ ErrCmp(x, 1, y) = 0
FloatGt(x, y) == IF RatEq(x, y) THEN ErrCmp(x, 1, y) > 0 ELSE RatGt(x, y)

\* x % y == 0: fmod is exact, so the test holds when the double x is an integer
\* multiple of the double y, that is when the fractions have an integer ratio n
\* and the rounding errors are in that ratio too
FloatModIsZero(x, y) ==
    LET num == x[1] * y[2]
        den == x[2] * y[1]
    IN num % den = 0 /\ ErrCmp(x, num \div den, y) = 0

\* x // y: the floor of the quotient of the two doubles; when the fractions have
\* an integer ratio n the rounding errors decide between n and n - 1
FloatFloorDiv(x, y) ==
    LET num == x[1] * y[2]
        den == x[2] * y[1]
    IN IF num % den # 0 THEN num \div den
       ELSE IF ErrCmp(x, num \div den, y) >= 0 THEN num \div den
       ELSE (num \div den) - 1

\* ------------------------------------------------------- sample arithmetic
RECURSIVE Gcd(_, _)
Gcd(a, b) == IF b = 0 THEN a ELSE Gcd(b, a % b)

RECURSIVE IsPow2(_)
IsPow2(n) == IF n = 1 THEN TRUE ELSE IF n % 2 = 1 THEN FALSE ELSE IsPow2(n \div 2)

Abs(n) == IF n < 0 THEN -n ELSE n
Min(a, b) == IF a < b THEN a ELSE b
Max(a, b) == IF a > b THEN a ELSE b

\* the fraction n / d (d > 0) in lowest terms
Frac(n, d) == LET g == Gcd(Abs(n), d) IN <<n \div g, d \div g>>
Whole(n) == <<n, 1>>
FracNeg(x) == <<-x[1], x[2]>>
FracAdd(x, y) == Frac(x[1] * y[2] + y[1] * x[2], x[2] * y[2])
FracTimes(k, x) == Frac(k * x[1], x[2])
FracOver(x, k) == Frac(x[1], x[2] * k)

RECURSIVE SumRange(_, _, _)
SumRange(row, lo, hi) ==
    IF lo > hi THEN Whole(0) ELSE FracAdd(row[lo], SumRange(row, lo + 1, hi))

\* ------------------------------------------------ telescope configuration
\* keys of Telescope._systems used by the presets GBT() and Arecibo()
Names == {"820_GUPPI", "Lband_GUPPI"}
Receivers == {"820"}
\* Backend.samprate, a dyadic number: 1/2 gives dt_tel = 1, and 25/2, the 12.5
\* of GBT's Lband_GUPPI, gives dt_tel = 0.04
SampRates == {<<1, 2>>, <<25, 2>>}
Backends == [samprate : SampRates]

\* ------------------------------------------------------------- signals
SignalTypes == {"voltage", "intensity"}
DataTypes == {"float32", "int8"}

\* signal.MetaData: the output representation and its clip thresholds
MetaDatas ==
    { [data_type |-> d, gauss_draw_max |-> Whole(c), gamma_draw_max |-> Whole(c + 1)] :
        d \in DataTypes, c \in 1..(MaxSample - 1) }

\* sample values a signal of each kind can hold; the signal layer is meant to
\* produce non-negative intensities, but observe takes the array as it comes,
\* so a negative intensity is among them
SampleValues(kind) ==
    IF kind = "voltage"
    THEN [i \in 1..(2 * MaxSample + 1) |-> Whole(i - 1 - MaxSample)]
    ELSE [i \in 1..(MaxSample + 3) |-> Whole(i - 2)]

\* the (Nrows, Nt) array of a signal: a ramp through the sample values,
\* started at offset p and shifted from row to row
RampData(kind, rows, nt, p) ==
    LET V == SampleValues(kind)
    IN [r \in 1..rows |-> [t \in 1..nt |-> V[((p + r + t) % Len(V)) + 1]]]

ConstData(rows, nt, v) == [r \in 1..rows |-> [t \in 1..nt |-> v]]

\* starting offsets of the ramp
Offsets == {0}

\* row counts: a single row and the largest
RowCounts == {1, MaxRows}

\* the row count of the kind not declared; observe never reads it
OtherRows(rows) == (rows % MaxRows) + 1

MakeSignal(kind, rows, nt, obs, sub, meta, data) ==
    [SignalType |-> kind,
     Npols |-> IF kind = "voltage" THEN rows ELSE OtherRows(rows),
     Nf |-> IF kind = "voltage" THEN OtherRows(rows) ELSE rows,
     Nt |-> nt, ObsTime |-> obs, subintlen |-> sub,
     MetaData |-> meta, signal |-> data]

\* subintlen: 0 stands for an absent (None) sub-integration length, which the
\* code's truth test treats like 0; only intensity signals carry one
Subints(kind) == IF kind = "voltage" THEN {0} ELSE 0..MaxSubint

\* (ObsTime, Nt) pairs
Timings == (1..MaxObsTime) \X (1..MaxNt)

SignalsOf(kind) ==
    { MakeSignal(kind, rows, tm[2], tm[1], sub, meta, RampData(kind, rows, tm[2], p)) :
        rows \in RowCounts, tm \in Timings, sub \in Subints(kind),
        meta \in MetaDatas, p \in Offsets }

\* (ObsTime, Nt) of signals sampled near the 0.04 of a 12.5 backend: dt_sig is
\* 1/25 (equal), 1/30 (no integer ratio) and 1/75 (ratio 3)
PresetTimings == {<<1, 25>>, <<1, 30>>, <<1, 75>>}

PresetMetaData ==
    [data_type |-> "float32", gauss_draw_max |-> Whole(1), gamma_draw_max |-> Whole(2)]

PresetSignals ==
    { MakeSignal(kind, MaxRows, tm[2], tm[1], 0, PresetMetaData,
                 ConstData(MaxRows, tm[2], Whole(MaxSample))) :
        kind \in SignalTypes, tm \in PresetTimings }

\* the end-to-end scenario of the spec: Nt = 1000 and dt_sig = 10/1000, a
\* quarter of the 0.04 of a 12.5 backend
ScenarioSignals ==
    { MakeSignal("voltage", MaxRows, 1000, 10, 0, PresetMetaData,
                 ConstData(MaxRows, 1000, Whole(MaxSample))) }

Signals ==
    SignalsOf("voltage") \cup SignalsOf("intensity") \cup PresetSignals \cup ScenarioSignals

\* --------------------------------------------------- resampling operators
\* down_sample(row, factor): block means, the trailing remainder dropped
down_sample(row, fact) ==
    [j \in 1..(Len(row) \div fact) |->
        FracOver(SumRange(row, (j - 1) * fact + 1, j * fact), fact)]

\* overlap of input bin i of N with output bin j of M, in units of 1/M input bins
Overlap(i, j, N, M) == Max(0, Min(i * M, j * N) - Max((i - 1) * M, (j - 1) * N))

\* the overlap-weighted sum of input bins lo..hi for output bin j of M,
\* summed by halves
RECURSIVE WeightedSum(_, _, _, _, _)
WeightedSum(row, lo, hi, j, M) ==
    IF lo > hi THEN Whole(0)
    ELSE IF lo = hi THEN FracTimes(Overlap(lo, j, Len(row), M), row[lo])
    ELSE LET mid == (lo + hi) \div 2
         IN FracAdd(WeightedSum(row, lo, mid, j, M), WeightedSum(row, mid + 1, hi, j, M))

\* the input bins that overlap output bin j of M
FirstBin(j, N, M) == (((j - 1) * N) \div M) + 1
LastBin(j, N, M) == (j * N + M - 1) \div M

\* rebin(row, newlen): each new bin is the overlap-weighted mean of the input bins
rebin(row, newlen) ==
    [j \in 1..newlen |->
        FracOver(WeightedSum(row, FirstBin(j, Len(row), newlen),
                             LastBin(j, Len(row), newlen), j, newlen),
                 Len(row))]

\* ------------------------------------------------------------- observe
dt_tel(bak) == <<bak.samprate[2], 2 * bak.samprate[1]>>
dt_sig(sig) == <<sig.ObsTime, sig.Nt>>

\* variant: no rebinning branch, a non-integer ratio raises
Strategy_no_rebin(dsig, dtel) ==
    IF FloatEq(dsig, dtel) THEN "passthrough"
    ELSE IF FloatModIsZero(dtel, dsig) THEN "decimate"
    ELSE "fail"

\* the if / elif / else chain of observe, in its order
Strategy(dsig, dtel) ==
    IF FloatEq(dsig, dtel) THEN "passthrough"
    ELSE IF FloatModIsZero(dtel, dsig) THEN "decimate"
    ELSE IF FloatGt(dtel, dsig) THEN "rebin"
    ELSE "fail"

\* SampFactor = int(dt_tel // dt_sig)
SampFactor(dsig, dtel) == FloatFloorDiv(dtel, dsig)

\* new_Nt = int(signal.Nt // SampFactor), on integers
DecimatedNt(nt, fact) == nt \div fact

\* new_Nt = int(signal.ObsTime // dt_tel)
RebinnedNt(sig, dtel) == FloatFloorDiv(<<sig.ObsTime, 1>>, dtel)

\* np.zeros((signal.Npols, new_Nt)) or np.zeros((signal.Nf, new_Nt))
Nrows(sig) == IF sig.SignalType = "voltage" THEN sig.Npols ELSE sig.Nf

zeros(rows, cols) == [r \in 1..rows |-> [t \in 1..cols |-> Whole(0)]]

\* for ii, row in enumerate(sig_in): out[ii, :] = resampled row
AssignRows(out, rows) ==
    [r \in 1..Len(out) |->
        IF r <= Len(rows)
        THEN [t \in 1..Len(out[r]) |->
                 IF t <= Len(rows[r]) THEN rows[r][t] ELSE Whole(0)]
        ELSE out[r]]

new_Nt(sig, strat, dsig, dtel) ==
    CASE strat = "passthrough" -> sig.Nt
      [] strat = "decimate" -> DecimatedNt(sig.Nt, SampFactor(dsig, dtel))
      [] strat = "rebin" -> RebinnedNt(sig, dtel)
      [] OTHER -> 0

\* the array `out` after the resampling branch
Resample(sig, strat, dsig, dtel) ==
    CASE strat = "passthrough" -> sig.signal
      [] strat = "decimate" ->
            AssignRows(zeros(Nrows(sig), new_Nt(sig, strat, dsig, dtel)),
                       [r \in 1..Len(sig.signal) |->
                           down_sample(sig.signal[r], SampFactor(dsig, dtel))])
      [] strat = "rebin" ->
            AssignRows(zeros(Nrows(sig), new_Nt(sig, strat, dsig, dtel)),
                       [r \in 1..Len(sig.signal) |->
                           rebin(sig.signal[r], new_Nt(sig, strat, dsig, dtel))])
      [] OTHER -> << >>

\* "BRENT HACK": dt_tel as it stands when the noise step is reached
NoiseDt(sig, dtel) ==
    IF sig.subintlen # 0 THEN <<sig.subintlen * MsPerSecond, 1>> ELSE dtel

\* dt_tel as the if / elif chain reads it: still the backend's, the override
\* of subintlen comes after the chain; variant: the override made first
PlanDt_overridden(sig, dtel) == NoiseDt(sig, dtel)
PlanDt(sig, dtel) == dtel

\* the clip threshold of the signal's kind; variant: the other kind's threshold
clip_wrong_field(sig) ==
    IF sig.SignalType = "voltage"
    THEN sig.MetaData.gamma_draw_max ELSE sig.MetaData.gauss_draw_max
clip(sig) ==
    IF sig.SignalType = "voltage"
    THEN sig.MetaData.gauss_draw_max ELSE sig.MetaData.gamma_draw_max

\* out[out>clip] = clip, and for a voltage signal out[out<-clip] = -clip;
\* variants: the lower clip left out, no clip at all, an intensity floored at 0
ClipSample_nonnegative(sig, v) ==
    IF sig.SignalType = "voltage"
    THEN LET u == IF RatGt(v, clip(sig)) THEN clip(sig) ELSE v
         IN IF RatLt(u, FracNeg(clip(sig))) THEN FracNeg(clip(sig)) ELSE u
    ELSE IF RatGt(v, clip(sig)) THEN clip(sig)
    ELSE IF v[1] < 0 THEN Whole(0) ELSE v
ClipSample_upper_only(sig, v) == IF RatGt(v, clip(sig)) THEN clip(sig) ELSE v
ClipSample_none(sig, v) == v
ClipSample(sig, v) ==
    IF sig.SignalType = "voltage"
    THEN LET u == IF RatGt(v, clip(sig)) THEN clip(sig) ELSE v
         IN IF RatLt(u, FracNeg(clip(sig))) THEN FracNeg(clip(sig)) ELSE u
    ELSE IF RatGt(v, clip(sig)) THEN clip(sig) ELSE v

ClipArray(sig, arr) ==
    [r \in 1..Len(arr) |-> [t \in 1..Len(arr[r]) |-> ClipSample(sig, arr[r][t])]]

\* q and r with a * 2^k = q * d + r, from a = q * d + r, one bit at a step
RECURSIVE ShiftDiv(_, _, _, _)
ShiftDiv(q, r, d, k) ==
    IF k <= 0 THEN <<q, r>>
    ELSE IF 2 * r >= d THEN ShiftDiv(2 * q + 1, 2 * r - d, d, k - 1)
    ELSE ShiftDiv(2 * q, 2 * r, d, k - 1)

\* round to nearest, ties to even: the quotient qr[1] with remainder qr[2] of d
RoundEven(qr, d) ==
    IF 2 * qr[2] > d \/ (2 * qr[2] = d /\ qr[1] % 2 = 1) THEN qr[1] + 1 ELSE qr[1]

\* the float32 nearest to v: 24 significant bits (for 1/128 <= |v|, the
\* denominators a 32 bit integer holds)
Float32(v) ==
    IF v[1] = 0 THEN v
    ELSE LET a == Abs(v[1])
             d == v[2]
             k == 23 - Log2Floor(a, d)
             sgn == IF v[1] < 0 THEN -1 ELSE 1
         IN IF k >= 0
            THEN Frac(sgn * RoundEven(ShiftDiv(a \div d, a % d, d, k), d), Pow2(k))
            ELSE LET D == d * Pow2(-k)
                 IN Whole(sgn * RoundEven(<<a \div D, a % D>>, D) * Pow2(-k))

\* np.array(out, dtype=data_type): int8 truncates toward zero (clipped samples
\* lie within the int8 range), float32 rounds to the nearest float32
CastSample(dtype, v) ==
    IF dtype = "int8"
    THEN Whole((IF v[1] < 0 THEN -1 ELSE 1) * (Abs(v[1]) \div v[2]))
    ELSE Float32(v)

CastArray(sig, arr) ==
    [r \in 1..Len(arr) |->
        [t \in 1..Len(arr[r]) |-> CastSample(sig.MetaData.data_type, arr[r][t])]]

\* self.systems[system][1]: the backend of the named system, or a KeyError;
\* variant: an unknown name falls back to a registered system
lookup_with_default(sys, system) ==
    IF system \in DOMAIN sys THEN [found |-> TRUE, bak |-> sys[system][2]]
    ELSE IF DOMAIN sys # {}
    THEN [found |-> TRUE, bak |-> sys[CHOOSE n \in DOMAIN sys : TRUE][2]]
    ELSE [found |-> FALSE, bak |-> [samprate |-> <<1, 1>>]]
lookup(sys, system) ==
    IF system \in DOMAIN sys THEN [found |-> TRUE, bak |-> sys[system][2]]
    ELSE [found |-> FALSE, bak |-> [samprate |-> <<1, 1>>]]

\* class Telescope defines no radiometer_noise method: the attribute lookup
\* self.radiometer_noise raises AttributeError before anything is added to out
has_radiometer_noise == FALSE

NoArray == << >>
NoDt == <<0, 1>>

Outcome(status, strat, fact, nt, dt, steps, resampled, clipped, out) ==
    [status |-> status, strategy |-> strat, SampFactor |-> fact, new_Nt |-> nt,
     dt |-> dt, steps |-> steps, resampled |-> resampled, clipped |-> clipped,
     out |-> out]

NoOutcome == Outcome("none", "none", 0, 0, NoDt, << >>, NoArray, NoArray, NoArray)

\* Telescope.observe(signal, system, mode, noise), the whole call: what it
\* raises or returns, and the steps it went through before that
observe(sys, sig, system, mode, noise) ==
    LET found == lookup(sys, system)
    IN IF ~found.found
       THEN Outcome("KeyError", "none", 0, 0, NoDt, <<"lookup">>,
                    NoArray, NoArray, NoArray)
       ELSE
       LET dtel == PlanDt(sig, dt_tel(found.bak))
           dsig == dt_sig(sig)
           strat == Strategy(dsig, dtel)
       IN IF strat = "fail"
          THEN Outcome("ValueError", "none", 0, 0, NoDt, <<"lookup", "reconcile">>,
                       NoArray, NoArray, NoArray)
          ELSE
          LET fact == IF strat = "decimate" THEN SampFactor(dsig, dtel) ELSE 0
              nt == new_Nt(sig, strat, dsig, dtel)
              resampled == Resample(sig, strat, dsig, dtel)
              dt == NoiseDt(sig, dt_tel(found.bak))
          IN IF noise /\ ~has_radiometer_noise
             THEN Outcome("AttributeError", strat, fact, nt, dt,
                          <<"lookup", "reconcile", "resample", "override", "noise">>,
                          resampled, NoArray, NoArray)
             ELSE
             LET clipped == ClipArray(sig, resampled)
             IN Outcome("returned", strat, fact, nt, dt,
                        <<"lookup", "reconcile", "resample", "override",
                          "clip", "cast", "return">>,
                        resampled, clipped, CastArray(sig, clipped))

\* Telescope.add_system: self._systems[name] = (receiver, backend);
\* variant: the mapping is replaced by the one entry
add_system_replace_all(sys, name, receiver, backend) ==
    [n \in {name} |-> <<receiver, backend>>]
add_system(sys, name, receiver, backend) ==
    [n \in (DOMAIN sys) \cup {name} |->
        IF n = name THEN <<receiver, backend>> ELSE sys[n]]

\* ---------------------------------------------------------- state machine
VARIABLES
    systems,   \* Telescope._systems: name -> (receiver, backend)
    signal,    \* the Signal handed to observe
    call,      \* the last call made on the telescope and its arguments
    ret        \* what the last observe call raised or returned

vars == <<systems, signal, call, ret>>

Modes == {"search", "fold"}

NoCall == [op |-> "none", name |-> "", receiver |-> "", backend |-> [samprate |-> <<1, 1>>],
           noise |-> FALSE]

\* Telescope.__init__: self._systems = {}
Init ==
    /\ systems = << >>
    /\ signal \in Signals
    /\ call = NoCall
    /\ ret = NoOutcome

AddSystem ==
    \E name \in Names, receiver \in Receivers, backend \in Backends :
        /\ systems' = add_system(systems, name, receiver, backend)
        /\ call' = [op |-> "add_system", name |-> name, receiver |-> receiver,
                    backend |-> backend, noise |-> FALSE]
        /\ ret' = NoOutcome
        /\ UNCHANGED signal

Observe ==
    \E system \in Names, mode \in Modes, noise \in BOOLEAN :
        /\ ret' = observe(systems, signal, system, mode, noise)
        /\ call' = [op |-> "observe", name |-> system, receiver |-> "",
                    backend |-> [samprate |-> <<1, 1>>], noise |-> noise]
        /\ UNCHANGED <<systems, signal>>

Next == AddSystem \/ Observe

Spec == Init /\ [][Next]_vars

\* ------------------------------------------------------------ properties
\* numpy's shape of a two-dimensional array
Shape(arr) == <<Len(arr), IF Len(arr) = 0 THEN 0 ELSE Len(arr[1])>>

Registered == call.name \in DOMAIN systems
Observed == call.op = "observe"
\* the backend interval and the signal interval of the observe call just made
TelDt == dt_tel(systems[call.name][2])
SigDt == dt_sig(signal)

\* The two quantities below are those of the specification, taken on the
\* fractions 1/(2*samprate) and ObsTime/Nt themselves.
\* k with dt_tel = k * dt_sig, or 0 when the ratio is no integer
IntegerRatio ==
    LET ks == { k \in 1..(TelDt[1] * SigDt[2]) : RatEq(TelDt, <<k * SigDt[1], SigDt[2]>>) }
    IN IF ks = {} THEN 0 ELSE CHOOSE k \in ks : TRUE

\* floor(ObsTime / dt_tel)
FloorObsOverDt ==
    CHOOSE n \in 0..(signal.ObsTime * TelDt[2]) :
        /\ n * TelDt[1] <= signal.ObsTime * TelDt[2]
        /\ (n + 1) * TelDt[1] > signal.ObsTime * TelDt[2]

\* Sanity of the sample arithmetic: every sample is a fraction in lowest terms,
\* a returned int8 sample is whole and a returned float32 sample is dyadic.
LowestTerms(v) == v[2] > 0 /\ Gcd(Abs(v[1]), v[2]) = 1
WellFormedSamples ==
    /\ \A r \in 1..Len(ret.resampled) : \A j \in 1..Len(ret.resampled[r]) :
          LowestTerms(ret.resampled[r][j])
    /\ \A r \in 1..Len(ret.out) : \A j \in 1..Len(ret.out[r]) :
          /\ LowestTerms(ret.out[r][j])
          /\ IF signal.MetaData.data_type = "int8"
             THEN ret.out[r][j][2] = 1
             ELSE IsPow2(ret.out[r][j][2])

\* C1: with a registered system, observe takes passthrough when dt_sig = dt_tel,
\* else decimation by dt_tel/dt_sig when that ratio is an integer, else rebinning
\* to floor(ObsTime/dt_tel) samples when dt_tel > dt_sig, else it fails; one
\* outcome and one only for every input.
C1_StrategyRule ==
    (Observed /\ Registered) =>
        /\ RatEq(SigDt, TelDt) =>
              ret.strategy = "passthrough" /\ ret.status # "ValueError"
        /\ (~RatEq(SigDt, TelDt) /\ IntegerRatio # 0) =>
              /\ ret.strategy = "decimate" /\ ret.status # "ValueError"
              /\ ret.SampFactor = IntegerRatio
        /\ (IntegerRatio = 0 /\ RatGt(TelDt, SigDt)) =>
              /\ ret.strategy = "rebin" /\ ret.status # "ValueError"
              /\ ret.new_Nt = FloorObsOverDt
        /\ (IntegerRatio = 0 /\ ~RatGt(TelDt, SigDt)) =>
              ret.strategy = "none" /\ ret.status = "ValueError"
        /\ ret.strategy \in {"passthrough", "decimate", "rebin", "none"}

\* dt_tel = 1/25 is three times dt_sig = 1/75, yet observe rebins, and to 24
\* samples where decimation by 3 gives 25
C1_Witness_RebinsIntegerRatio ==
    /\ Observed /\ Registered
    /\ signal.Nt = 75 /\ signal.ObsTime = 1 /\ IntegerRatio = 3
    /\ ret.strategy = "rebin" /\ ret.status = "returned"
    /\ ret.new_Nt = 24

ExpectedRows == IF signal.SignalType = "voltage" THEN signal.Npols ELSE signal.Nf

\* C2: a returned array has shape (Nrows, new_Nt): Nrows is Npols for a voltage
\* signal and Nf for an intensity signal, new_Nt is Nt for passthrough,
\* floor(Nt/factor) for decimation and floor(ObsTime/dt_tel) for rebinning;
\* Nt = 1000 with dt_tel = 4 * dt_sig gives (Nrows, 250).
C2_OutputShape ==
    (Observed /\ Registered /\ ret.status = "returned") =>
        /\ RatEq(SigDt, TelDt) => Shape(ret.out) = <<ExpectedRows, signal.Nt>>
        /\ (~RatEq(SigDt, TelDt) /\ IntegerRatio # 0) =>
              Shape(ret.out) = <<ExpectedRows, signal.Nt \div IntegerRatio>>
        /\ (IntegerRatio = 0 /\ RatGt(TelDt, SigDt)) =>
              Shape(ret.out) = <<ExpectedRows, FloorObsOverDt>>
        /\ (signal.Nt = 1000 /\ IntegerRatio = 4) =>
              Shape(ret.out) = <<ExpectedRows, 250>>

\* ObsTime = 1 holds 25 intervals of 1/25, yet the rebinned array has 24 columns
C2_Witness_ShortRebin ==
    /\ Observed /\ Registered /\ ret.status = "returned"
    /\ signal.Nt = 30 /\ signal.ObsTime = 1 /\ IntegerRatio = 0
    /\ ret.strategy = "rebin" /\ FloorObsOverDt = 25
    /\ Shape(ret.out) = <<ExpectedRows, 24>>

\* the clip threshold of the signal's kind, read off the metadata
Threshold ==
    IF signal.SignalType = "voltage"
    THEN signal.MetaData.gauss_draw_max ELSE signal.MetaData.gamma_draw_max

Saturated(v) ==
    IF RatGt(v, Threshold) THEN Threshold
    ELSE IF signal.SignalType = "voltage" /\ RatLt(v, FracNeg(Threshold))
    THEN FracNeg(Threshold)
    ELSE v

Passthrough == Observed /\ Registered /\ RatEq(SigDt, TelDt) /\ ~call.noise

\* C3 as stated: with dt_sig = dt_tel and noise = False, observe returns the
\* input array unchanged in value and shape, whatever the sample values are.
C3_Original_Identity ==
    Passthrough => (ret.status = "returned" /\ ret.out = signal.signal)

\* C3 as amended: with dt_sig = dt_tel and noise = False, observe returns an array
\* of the input's shape in which every sample inside the clip range equals the
\* input sample and every sample beyond the clip threshold equals the threshold.
C3_Amended_IdentityUpToClip ==
    Passthrough =>
        /\ ret.status = "returned"
        /\ Shape(ret.out) = Shape(signal.signal)
        /\ \A r \in 1..Len(ret.out) : \A t \in 1..Len(ret.out[r]) :
              ret.out[r][t] = Saturated(signal.signal[r][t])

C3_Witness_ClippedPassthrough ==
    /\ Passthrough /\ ret.status = "returned"
    /\ ret.out # signal.signal
    /\ \E r \in 1..Len(ret.out) : \E t \in 1..Len(ret.out[r]) :
          ret.out[r][t] = signal.signal[r][t] /\ ret.out[r][t] # Whole(0)
    /\ \E r \in 1..Len(ret.out) : \E t \in 1..Len(ret.out[r]) :
          /\ RatLt(signal.signal[r][t], FracNeg(Threshold))
          /\ ret.out[r][t] = FracNeg(Threshold)

\* C4: with a registered system, observe raises the sample rate error exactly
\* when dt_tel < dt_sig, and then nothing was allocated, clipped or returned.
C4_SampleRateError ==
    (Observed /\ Registered) =>
        /\ ret.status = "ValueError" <=> RatLt(TelDt, SigDt)
        /\ ret.status = "ValueError" =>
              /\ ret.steps = <<"lookup", "reconcile">>
              /\ ret.resampled = NoArray /\ ret.clipped = NoArray /\ ret.out = NoArray

C4_Witness_Raised ==
    /\ Observed /\ Registered /\ ret.status = "ValueError"
    /\ RatLt(TelDt, SigDt) /\ signal.Nt > 1

\* C5: observe with a system name that was never registered fails at the
\* lookup, before the sample rates are reconciled, and produces no array,
\* whatever the signal, mode and noise.
C5_UnknownSystem ==
    (Observed /\ ~Registered) =>
        /\ ret.status = "KeyError"
        /\ ret.steps = <<"lookup">>
        /\ ret.resampled = NoArray /\ ret.clipped = NoArray /\ ret.out = NoArray

C5_Witness_UnknownAmongKnown ==
    /\ Observed /\ ~Registered /\ DOMAIN systems # {} /\ call.noise
    /\ ret.status = "KeyError"

\* C6: for a voltage signal the returned array is, before the cast, the
\* resampled array clipped symmetrically: samples above +voltage_clip become
\* +voltage_clip, samples below -voltage_clip become -voltage_clip, the rest
\* keep their value.
C6_VoltageClip ==
    (Observed /\ Registered /\ ret.status = "returned" /\ signal.SignalType = "voltage") =>
        /\ Shape(ret.clipped) = Shape(ret.resampled)
        /\ \A r \in 1..Len(ret.clipped) : \A t \in 1..Len(ret.clipped[r]) :
              LET v == ret.resampled[r][t]
                  c == signal.MetaData.gauss_draw_max
              IN /\ RatGt(v, c) => ret.clipped[r][t] = c
                 /\ RatLt(v, FracNeg(c)) => ret.clipped[r][t] = FracNeg(c)
                 /\ (~RatLt(v, FracNeg(c)) /\ ~RatGt(v, c)) => ret.clipped[r][t] = v

C6_Witness_BothSides ==
    /\ Observed /\ Registered /\ ret.status = "returned"
    /\ signal.SignalType = "voltage" /\ ret.strategy = "decimate"
    /\ \E r \in 1..Len(ret.clipped) : \E t \in 1..Len(ret.clipped[r]) :
          RatGt(ret.resampled[r][t], signal.MetaData.gauss_draw_max)
    /\ \E r \in 1..Len(ret.clipped) : \E t \in 1..Len(ret.clipped[r]) :
          RatLt(ret.resampled[r][t], FracNeg(signal.MetaData.gauss_draw_max))
    /\ \E r \in 1..Len(ret.clipped) : \E t \in 1..Len(ret.clipped[r]) :
          /\ ret.resampled[r][t][1] # 0
          /\ RatLt(<<Abs(ret.resampled[r][t][1]), ret.resampled[r][t][2]>>,
                   signal.MetaData.gauss_draw_max)
          /\ ret.clipped[r][t] = ret.resampled[r][t]

C8_NoiseNeverFails ==
    (Observed /\ Registered /\ ~RatLt(TelDt, SigDt)) =>
        /\ call.noise =>
              /\ ret.status = "returned"
              /\ "noise" \in { ret.steps[i] : i \in DOMAIN ret.steps }
              /\ Shape(ret.out) =
                    Shape(observe(systems, signal, call.name, "search", FALSE).out)
        /\ ~call.noise =>
              /\ ret.status = "returned"
              /\ "noise" \notin { ret.steps[i] : i \in DOMAIN ret.steps }

C8_Witness_NoiseRequested ==
    /\ Observed /\ Registered /\ ~RatLt(TelDt, SigDt) /\ call.noise
    /\ ret.status = "AttributeError"

\* C9: the systems mapping starts empty; add_system sets the entry of its own
\* name to its (receiver, backend) pair and leaves every other entry as it was,
\* so repeating a call changes nothing; observe never changes the mapping.
C9_SystemsUpsert ==
    /\ systems = << >>
    /\ [][ /\ DOMAIN systems' \subseteq Names
           /\ call'.op = "add_system" =>
                 \A n \in Names :
                     IF n = call'.name
                     THEN /\ n \in DOMAIN systems'
                          /\ systems'[n] = <<call'.receiver, call'.backend>>
                     ELSE /\ n \in DOMAIN systems' <=> n \in DOMAIN systems
                          /\ n \in DOMAIN systems => systems'[n] = systems[n]
           /\ (call'.op = "add_system" /\ call' = call) => systems' = systems
           /\ call'.op = "observe" => systems' = systems ]_vars

C9_Witness_TwoSystems ==
    /\ call.op = "add_system"
    /\ DOMAIN systems = Names
    /\ systems[call.name] = <<call.receiver, call.backend>>
    /\ \E n \in Names : systems[n][2] # call.backend

\* C10: two signals that differ only in subintlen get the same strategy, the
\* same failure, the same output shape and, with noise = False, equal arrays;
\* the time step at the noise step is subintlen (in ms) when it is present and
\* the backend's dt_tel otherwise.
C10_SubintlenFrame ==
    (Observed /\ Registered) =>
        /\ \A sub \in 0..MaxSubint :
              LET alt == observe(systems, [signal EXCEPT !.subintlen = sub],
                                 call.name, "search", call.noise)
              IN /\ alt.status = ret.status
                 /\ alt.strategy = ret.strategy
                 /\ alt.SampFactor = ret.SampFactor /\ alt.new_Nt = ret.new_Nt
                 /\ alt.steps = ret.steps
                 /\ Shape(alt.resampled) = Shape(ret.resampled)
                 /\ Shape(alt.out) = Shape(ret.out)
                 /\ ~call.noise => alt.out = ret.out
        /\ ret.status \in {"returned", "AttributeError"} =>
              IF signal.subintlen # 0
              THEN ret.dt = <<signal.subintlen * MsPerSecond, 1>>
              ELSE RatEq(ret.dt, TelDt)

C10_Witness_Override ==
    /\ Observed /\ Registered /\ ret.status = "returned"
    /\ signal.subintlen # 0 /\ ret.strategy = "decimate" /\ ret.new_Nt > 0
    /\ ~RatEq(ret.dt, TelDt)

====
